---- MODULE Spec2Model ----
(***************************************************************************)
(* Model of the max CLI front-end: the per-project daemon lifecycle and    *)
(* connection handshake (packages/cli/cli/src/daemon.rs) and the           *)
(* conversational session loop (packages/cli/rust-proxy/src/main.rs).      *)
(*                                                                         *)
(* Every system call of a client is one step, so that the steps of         *)
(* independent client processes and of the daemon interleave the way the   *)
(* operating system lets them.                                             *)
(***************************************************************************)
EXTENDS Integers, Sequences, FiniteSets, TLC

(***************************************************************************)
(* Processes.                                                              *)
(***************************************************************************)
\* Client processes racing over the same project root.
Clients == {"c1", "c2"}

\* Daemon processes: one that may exist before any client starts, and the
\* one each client may launch.
Daemons == {"d0"} \cup Clients

\* The process id of each daemon.
PidOf(d) == CASE d = "d0" -> 7 [] d = "c1" -> 8 [] d = "c2" -> 9

\* daemon.rs:10
MAX_CONNECT_ATTEMPTS == 20

NoFile == "nofile"

\* A text file: absent, or present with its content.
Absent == [exists |-> FALSE, text |-> <<>>]
File(text) == [exists |-> TRUE, text |-> text]

VARIABLES
    pc,        \* pc[c]: the position of client c
    attempt,   \* attempt[c]: the loop variable of connect's retry loop
    pidStr,    \* pidStr[c]: is_daemon_alive's local pid_str
    result,    \* result[c]: what connect returned
    h,         \* h[c]: history of the calls client c has made
    seen,      \* clients in whose connect call a listener appeared
    dirExists, \* the daemon directory exists
    sock,      \* daemon.sock: NoFile, or the daemon whose bind created it
    pidf,      \* daemon.pid: Absent, or File(a sequence of characters)
    logf,      \* daemon.log: Absent, or File(a sequence of entries)
    projf,     \* project.json: NoFile, or its content
    dstate,    \* dstate[d]: "none", "running" or "dead"
    dbound,    \* dbound[d]: daemon d holds a listening socket
    dtried,    \* dtried[d]: the startup steps daemon d has taken
    argv,      \* main's args: the command line after the program name
    root,      \* main's project_root: NoRoot, or the root found
    req,       \* main's request: its kind and shell
    direct,    \* the arguments of the pending run_direct call
    cur,       \* the session loop's line
    atEOF,     \* the daemon's stream has ended after an unterminated line
    input,     \* the prompt arm's input
    calls,     \* how often main has called connect
    trace,     \* what main has written, read and printed so far, in order
    exit,      \* whether main's process has ended, and its exit status
    env,       \* the HOME variable of the environment, or Unset
    paths,     \* paths[c]: the DaemonPaths client c has computed
    stdin      \* what a read_line of standard input can return in this run

connVars == <<pc, attempt, pidStr, result, h, seen>>
fsVars == <<dirExists, sock, pidf, logf, projf>>
dVars == <<dstate, dbound, dtried>>
mainVars == <<argv, root, req, direct, cur, atEOF, input, calls, trace, exit>>
envVars == <<env, paths, stdin>>
vars == <<connVars, fsVars, dVars, mainVars, envVars>>


(***************************************************************************)
(* DaemonPaths (daemon.rs:17-43).                                          *)
(***************************************************************************)
\* HOME is not set in the environment.
Unset == "unset"

\* The home directory of the user the clients of one race run as.
UserHome == "/home/u"

\* project_hash: the first six bytes of the SHA-256 digest of the root's
\* text, in hexadecimal. The digest is kept symbolic; distinct texts are
\* taken to have distinct digests.
ProjectHash(r) == <<"sha256", r, "hex", "6">>

\* No DaemonPaths computed yet, and the panic of `expect("HOME not set")`.
NoPaths == [state |-> "none", dir |-> <<>>, socket |-> <<>>, pid |-> <<>>, log |-> <<>>]
Panicked == [state |-> "panic", dir |-> <<>>, socket |-> <<>>, pid |-> <<>>, log |-> <<>>]

\* DaemonPaths::for_project: HOME/.max/daemons/<hash> and the three files
\* in it; a path is the sequence of its components.
ForProject(r, home) ==
    IF home = Unset THEN Panicked
    ELSE LET dir == <<home, ".max", "daemons", ProjectHash(r)>>
         IN [state |-> "ok",
             dir |-> dir,
             socket |-> Append(dir, "daemon.sock"),
             pid |-> Append(dir, "daemon.pid"),
             log |-> Append(dir, "daemon.log")]

(***************************************************************************)
(* Text of the pid file and its parsing (is_daemon_alive).                 *)
(***************************************************************************)
DigitChars == <<"0", "1", "2", "3", "4", "5", "6", "7", "8", "9">>

IsSpace(ch) == ch \in {" ", "\n", "\t", "\r"}

IsDigit(ch) == \E i \in 1..10 : DigitChars[i] = ch

DigitVal(ch) == (CHOOSE i \in 1..10 : DigitChars[i] = ch) - 1

\* The decimal text of a natural number.
RECURSIVE Decimal(_)
Decimal(n) ==
    IF n < 10 THEN <<DigitChars[n + 1]>>
    ELSE Decimal(n \div 10) \o <<DigitChars[(n % 10) + 1]>>

\* str::trim: leading and trailing whitespace removed.
RECURSIVE TrimStart(_)
TrimStart(s) ==
    IF s # <<>> /\ IsSpace(Head(s)) THEN TrimStart(Tail(s)) ELSE s

RECURSIVE TrimEnd(_)
TrimEnd(s) ==
    IF s # <<>> /\ IsSpace(s[Len(s)]) THEN TrimEnd(SubSeq(s, 1, Len(s) - 1)) ELSE s

Trim(s) == TrimEnd(TrimStart(s))

I32_MAX == 2147483647

\* The digits s accumulated onto acc the way i32's from_str does: added for
\* a positive number, subtracted for a negative one, failing on a character
\* that is no digit and on leaving the i32 range.
RECURSIVE DigitsValue(_, _, _)
DigitsValue(s, acc, neg) ==
    IF s = <<>> THEN [ok |-> TRUE, val |-> acc]
    ELSE IF ~IsDigit(Head(s)) THEN [ok |-> FALSE, val |-> 0]
    ELSE LET d == DigitVal(Head(s))
             lim == I32_MAX \div 10
             last == I32_MAX % 10
         IN IF neg
            THEN IF acc > 0 - lim \/ (acc = 0 - lim /\ d <= last + 1)
                 THEN DigitsValue(Tail(s), acc * 10 - d, neg)
                 ELSE [ok |-> FALSE, val |-> 0]
            ELSE IF acc < lim \/ (acc = lim /\ d <= last)
                 THEN DigitsValue(Tail(s), acc * 10 + d, neg)
                 ELSE [ok |-> FALSE, val |-> 0]

\* str::parse::<i32>: an optional sign, then one or more digits, in range.
ParseI32(s) ==
    LET neg == s # <<>> /\ Head(s) = "-"
        signed == s # <<>> /\ Head(s) \in {"-", "+"}
        digits == IF signed THEN Tail(s) ELSE s
    IN IF digits = <<>> THEN [ok |-> FALSE, val |-> 0]
       ELSE DigitsValue(digits, 0, neg)

\* kill(pid, 0) == 0: a positive pid names one process; 0 names the caller's
\* own process group and -1 every process the caller may signal.
Kill0(p) ==
    IF p > 0 THEN \E d \in Daemons : PidOf(d) = p /\ dstate[d] = "running"
    ELSE p \in {0, -1}

\* A connection to the socket path succeeds iff the file at the path is the
\* socket of a daemon that is listening on it.
Listening(d) == dstate[d] = "running" /\ dbound[d]

ConnectOK == sock \in Daemons /\ Listening(sock)


(***************************************************************************)
(* connect (daemon.rs:161-189) and the functions it calls, one action per  *)
(* system call.                                                            *)
(***************************************************************************)
\* Client c is inside a connect call whose immediate attempt has failed and
\* whose 20th retry attempt has not been made yet.
InRetryWindow(c) ==
    /\ h[c].immediate = 1
    /\ pc[c] # "returned"
    /\ h[c].retry < MAX_CONNECT_ATTEMPTS

\* connect returns r.
Return(c, r) ==
    /\ pc' = [pc EXCEPT ![c] = "returned"]
    /\ result' = [result EXCEPT ![c] = r]

Ok(d) == [kind |-> "ok", peer |-> d]
Err(k) == [kind |-> k, peer |-> "none"]

\* ConnectImmediate with the early return lost: a successful immediate
\* attempt falls through to the liveness check.
ConnectImmediateFallsThrough(c) ==
    /\ pc[c] = "connect"
    /\ h' = [h EXCEPT ![c].immediate = @ + 1, ![c].firstBound = ConnectOK,
                      ![c].steps = @ + 1]
    /\ pc' = [pc EXCEPT ![c] = "read_pid"]
    /\ UNCHANGED <<result, attempt, pidStr, seen, fsVars, dVars, mainVars, envVars>>

\* daemon.rs:164-166: the immediate attempt.
ConnectImmediate(c) ==
    /\ pc[c] = "connect"
    /\ h' = [h EXCEPT ![c].immediate = @ + 1, ![c].firstBound = ConnectOK,
                      ![c].steps = @ + 1]
    /\ IF ConnectOK
       THEN Return(c, Ok(sock))
       ELSE /\ pc' = [pc EXCEPT ![c] = "read_pid"]
            /\ UNCHANGED result
    /\ UNCHANGED <<attempt, pidStr, seen, fsVars, dVars, mainVars, envVars>>

\* daemon.rs:168, 100-107: is_daemon_alive reads and parses the pid file.
ReadPid(c) ==
    /\ pc[c] = "read_pid"
    /\ LET parsed == IF ~pidf.exists THEN [ok |-> FALSE, val |-> 0]
                     ELSE ParseI32(Trim(pidf.text))
       IN IF parsed.ok
          THEN /\ pc' = [pc EXCEPT ![c] = "probe"]
               /\ pidStr' = [pidStr EXCEPT ![c] = pidf.text]
               /\ h' = [h EXCEPT ![c].alive = @ + 1, ![c].steps = @ + 1]
          ELSE /\ pc' = [pc EXCEPT ![c] = "rm_sock"]
               /\ h' = [h EXCEPT ![c].alive = @ + 1, ![c].aliveRes = "false",
                                 ![c].steps = @ + 1]
               /\ UNCHANGED pidStr
    /\ UNCHANGED <<attempt, result, seen, fsVars, dVars, mainVars, envVars>>

\* Probe with the branch on the result lost: cleanup and spawn follow also
\* when the daemon is alive.
ProbeAlwaysCleans(c) ==
    /\ pc[c] = "probe"
    /\ LET alive == Kill0(ParseI32(Trim(pidStr[c])).val)
       IN /\ pc' = [pc EXCEPT ![c] = "rm_sock"]
          /\ h' = [h EXCEPT ![c].aliveRes = IF alive THEN "true" ELSE "false",
                            ![c].steps = @ + 1]
    /\ pidStr' = [pidStr EXCEPT ![c] = <<>>]
    /\ UNCHANGED <<attempt, result, seen, fsVars, dVars, mainVars, envVars>>

\* daemon.rs:108-109, 168: the signal-0 probe and the branch on its result.
Probe(c) ==
    /\ pc[c] = "probe"
    /\ LET alive == Kill0(ParseI32(Trim(pidStr[c])).val)
       IN /\ pc' = [pc EXCEPT ![c] = IF alive THEN "loop" ELSE "rm_sock"]
          /\ h' = [h EXCEPT ![c].aliveRes = IF alive THEN "true" ELSE "false",
                            ![c].steps = @ + 1]
    /\ pidStr' = [pidStr EXCEPT ![c] = <<>>]
    /\ UNCHANGED <<attempt, result, seen, fsVars, dVars, mainVars, envVars>>

\* RemoveSock with the error of removing a file that is not there handed
\* to the caller instead of dropped.
RemoveSockFailsWhenAbsent(c) ==
    /\ pc[c] = "rm_sock"
    /\ IF sock = NoFile
       THEN Return(c, Err("err_clean"))
       ELSE /\ pc' = [pc EXCEPT ![c] = "rm_pid"]
            /\ UNCHANGED result
    /\ sock' = NoFile
    /\ h' = [h EXCEPT ![c].clean = @ + 1, ![c].steps = @ + 1]
    /\ UNCHANGED <<attempt, pidStr, seen, dirExists, pidf, logf, projf, dVars, mainVars, envVars>>

\* daemon.rs:169, 113: clean_stale_files removes the socket file.
RemoveSock(c) ==
    /\ pc[c] = "rm_sock"
    /\ pc' = [pc EXCEPT ![c] = "rm_pid"]
    /\ sock' = NoFile
    /\ h' = [h EXCEPT ![c].clean = @ + 1, ![c].steps = @ + 1]
    /\ UNCHANGED <<attempt, pidStr, result, seen, dirExists, pidf, logf, projf, dVars, mainVars, envVars>>

\* RemovePid with the call of spawn lost: after the cleanup connect goes
\* straight to the retry loop.
RemovePidSkipsSpawn(c) ==
    /\ pc[c] = "rm_pid"
    /\ pc' = [pc EXCEPT ![c] = "loop"]
    /\ pidf' = Absent
    /\ h' = [h EXCEPT ![c].steps = @ + 1]
    /\ UNCHANGED <<attempt, pidStr, result, seen, dirExists, sock, logf, projf, dVars, mainVars, envVars>>

\* daemon.rs:114: clean_stale_files removes the pid file.
RemovePid(c) ==
    /\ pc[c] = "rm_pid"
    /\ pc' = [pc EXCEPT ![c] = "find_script"]
    /\ pidf' = Absent
    /\ h' = [h EXCEPT ![c].steps = @ + 1]
    /\ UNCHANGED <<attempt, pidStr, result, seen, dirExists, sock, logf, projf, dVars, mainVars, envVars>>


\* SpawnResult with the `?` lost: a failure of spawn is dropped and connect
\* goes on to the retry loop.
SpawnResultDropsError(c, r) ==
    /\ pc' = [pc EXCEPT ![c] = "loop"]
    /\ UNCHANGED result

\* daemon.rs:170: `spawn(project_root, &paths)?` hands a failure of spawn
\* straight back to connect's caller; on success connect goes on to the
\* retry loop.
SpawnResult(c, r) ==
    IF r = "ok"
    THEN /\ pc' = [pc EXCEPT ![c] = "loop"]
         /\ UNCHANGED result
    ELSE Return(c, Err(r))

\* daemon.rs:170, 118: spawn is entered and resolves the daemon's entry point.
SpawnFindScript(c) ==
    /\ pc[c] = "find_script"
    /\ \E ok \in BOOLEAN :
        /\ h' = [h EXCEPT ![c].spawn = @ + 1, ![c].cleanAtSpawn = h[c].clean,
                          ![c].spawnErr = ~ok, ![c].steps = @ + 1]
        /\ IF ok
           THEN /\ pc' = [pc EXCEPT ![c] = "mkdir"]
                /\ UNCHANGED result
           ELSE SpawnResult(c, "err_script")
    /\ UNCHANGED <<attempt, pidStr, seen, fsVars, dVars, mainVars, envVars>>

\* daemon.rs:122-123: create_dir_all on the daemon directory.
SpawnCreateDir(c) ==
    /\ pc[c] = "mkdir"
    /\ \E ok \in BOOLEAN :
        /\ IF ok
           THEN /\ pc' = [pc EXCEPT ![c] = "write_project"]
                /\ dirExists' = TRUE
                /\ h' = [h EXCEPT ![c].steps = @ + 1]
                /\ UNCHANGED result
           ELSE /\ SpawnResult(c, "err_dir")
                /\ h' = [h EXCEPT ![c].spawnErr = TRUE, ![c].steps = @ + 1]
                /\ UNCHANGED dirExists
    /\ UNCHANGED <<attempt, pidStr, seen, sock, pidf, logf, projf, dVars, mainVars, envVars>>

\* daemon.rs:126-131: project.json is written.
SpawnWriteProject(c) ==
    /\ pc[c] = "write_project"
    /\ \E ok \in BOOLEAN :
        /\ IF ok
           THEN /\ pc' = [pc EXCEPT ![c] = "create_log"]
                /\ projf' = "root"
                /\ h' = [h EXCEPT ![c].steps = @ + 1]
                /\ UNCHANGED result
           ELSE /\ SpawnResult(c, "err_project")
                /\ h' = [h EXCEPT ![c].spawnErr = TRUE, ![c].steps = @ + 1]
                /\ UNCHANGED projf
    /\ UNCHANGED <<attempt, pidStr, seen, dirExists, sock, pidf, logf, dVars, mainVars, envVars>>

\* daemon.rs:137-138: File::create opens the log, truncating what it held.
SpawnCreateLog(c) ==
    /\ pc[c] = "create_log"
    /\ \E ok \in BOOLEAN :
        /\ IF ok
           THEN /\ pc' = [pc EXCEPT ![c] = "launch"]
                /\ logf' = File(<<>>)
                /\ h' = [h EXCEPT ![c].steps = @ + 1]
                /\ UNCHANGED result
           ELSE /\ SpawnResult(c, "err_log")
                /\ h' = [h EXCEPT ![c].spawnErr = TRUE, ![c].steps = @ + 1]
                /\ UNCHANGED logf
    /\ UNCHANGED <<attempt, pidStr, seen, dirExists, sock, pidf, projf, dVars, mainVars, envVars>>

\* daemon.rs:140-158: the daemon process is launched; spawn does not wait
\* for it to become ready.
SpawnLaunch(c) ==
    /\ pc[c] = "launch"
    /\ \E ok \in BOOLEAN :
        /\ IF ok
           THEN /\ SpawnResult(c, "ok")
                /\ dstate' = [dstate EXCEPT ![c] = "running"]
                /\ h' = [h EXCEPT ![c].steps = @ + 1]
           ELSE /\ SpawnResult(c, "err_launch")
                /\ h' = [h EXCEPT ![c].spawnErr = TRUE, ![c].steps = @ + 1]
                /\ UNCHANGED dstate
    /\ UNCHANGED <<attempt, pidStr, seen, fsVars, dbound, dtried, mainVars, envVars>>

\* daemon.rs:173-174, 188: the head of the retry loop and the sleep before
\* the attempt; the statement after the loop once the range is used up.
RetrySleep(c) ==
    /\ pc[c] = "loop"
    /\ IF attempt[c] < MAX_CONNECT_ATTEMPTS
       THEN /\ pc' = [pc EXCEPT ![c] = "attempt"]
            /\ h' = [h EXCEPT ![c].sleep = @ + 1, ![c].steps = @ + 1]
            /\ UNCHANGED result
       ELSE /\ Return(c, Err("generic"))
            /\ h' = [h EXCEPT ![c].steps = @ + 1]
    /\ UNCHANGED <<attempt, pidStr, seen, fsVars, dVars, mainVars, envVars>>

\* RetryAttempt with the guard of the continue arm off by one: the last
\* failed attempt continues too, and the loop runs out.
RetryAttemptOffByOne(c) ==
    /\ pc[c] = "attempt"
    /\ h' = [h EXCEPT ![c].retry = @ + 1, ![c].steps = @ + 1]
    /\ IF ConnectOK
       THEN /\ Return(c, Ok(sock))
            /\ UNCHANGED attempt
       ELSE IF attempt[c] < MAX_CONNECT_ATTEMPTS
       THEN /\ pc' = [pc EXCEPT ![c] = "loop"]
            /\ attempt' = [attempt EXCEPT ![c] = @ + 1]
            /\ UNCHANGED result
       ELSE /\ Return(c, Err("exhausted"))
            /\ UNCHANGED attempt
    /\ UNCHANGED <<pidStr, seen, fsVars, dVars, mainVars, envVars>>

\* daemon.rs:176-185: one retry attempt.
RetryAttempt(c) ==
    /\ pc[c] = "attempt"
    /\ h' = [h EXCEPT ![c].retry = @ + 1, ![c].steps = @ + 1]
    /\ IF ConnectOK
       THEN /\ Return(c, Ok(sock))
            /\ UNCHANGED attempt
       ELSE IF attempt[c] < MAX_CONNECT_ATTEMPTS - 1
       THEN /\ pc' = [pc EXCEPT ![c] = "loop"]
            /\ attempt' = [attempt EXCEPT ![c] = @ + 1]
            /\ UNCHANGED result
       ELSE /\ Return(c, Err("exhausted"))
            /\ UNCHANGED attempt
    /\ UNCHANGED <<pidStr, seen, fsVars, dVars, mainVars, envVars>>

(***************************************************************************)
(* The daemon's startup, as far as the client can observe it: it binds     *)
(* the socket path and writes its process id to the pid file.              *)
(***************************************************************************)
\* The daemon binds the socket path; it exits when the path is taken.
DaemonBind(d) ==
    /\ dstate[d] = "running"
    /\ "bind" \notin dtried[d]
    /\ dtried' = [dtried EXCEPT ![d] = @ \cup {"bind"}]
    /\ IF sock = NoFile /\ dirExists
       THEN /\ sock' = d
            /\ dbound' = [dbound EXCEPT ![d] = TRUE]
            /\ seen' = seen \cup {c \in Clients : InRetryWindow(c)}
            /\ UNCHANGED dstate
       ELSE /\ dstate' = [dstate EXCEPT ![d] = "dead"]
            /\ UNCHANGED <<sock, dbound, seen>>
    /\ UNCHANGED <<pc, attempt, pidStr, result, h, dirExists, pidf, logf, projf, mainVars, envVars>>

\* The daemon writes its process id to the pid file.
DaemonWritePid(d) ==
    /\ dstate[d] = "running"
    /\ "pid" \notin dtried[d]
    /\ dirExists
    /\ dtried' = [dtried EXCEPT ![d] = @ \cup {"pid"}]
    /\ pidf' = File(Decimal(PidOf(d)))
    /\ UNCHANGED <<connVars, dirExists, sock, logf, projf, dstate, dbound, mainVars, envVars>>

(***************************************************************************)
(* Initial states and the specification of racing connect calls.           *)
(***************************************************************************)
H0 == [immediate |-> 0, firstBound |-> FALSE, alive |-> 0, aliveRes |-> "none",
       clean |-> 0, cleanAtSpawn |-> 0, spawn |-> 0, spawnErr |-> FALSE,
       sleep |-> 0, retry |-> 0, steps |-> 0]

\* The daemon directory with nothing in it yet.
FreshFiles ==
    /\ dirExists = FALSE
    /\ sock = NoFile /\ pidf = Absent /\ logf = Absent /\ projf = NoFile
    /\ dstate = [d \in Daemons |-> "none"]
    /\ dbound = [d \in Daemons |-> FALSE]
    /\ dtried = [d \in Daemons |-> {}]

\* The daemon directory as an earlier daemon d0 has made it: d0 in state st
\* having taken the startup steps in tried.
UsedFiles(st, tried) ==
    /\ dirExists = TRUE
    /\ logf = File(<<"old">>) /\ projf = "root"
    /\ dstate = [d \in Daemons |-> IF d = "d0" THEN st ELSE "none"]
    /\ dtried = [d \in Daemons |-> IF d = "d0" THEN tried ELSE {}]
    /\ dbound = [d \in Daemons |-> d = "d0" /\ st = "running" /\ "bind" \in tried]
    /\ sock = IF "bind" \in tried THEN "d0" ELSE NoFile
    /\ pidf = IF "pid" \in tried THEN File(Decimal(PidOf("d0"))) ELSE Absent

\* What a project's daemon directory holds when the clients start: nothing
\* at all, or what an earlier daemon d0 has left there (d0 still starting,
\* serving, or gone with its files left behind).
InitFiles ==
    \/ FreshFiles
    \/ \E tried \in SUBSET {"bind", "pid"} : UsedFiles("running", tried)
    \/ UsedFiles("dead", {"bind", "pid"})

\* A daemon directory that has been in use, d0's startup over: a serving
\* daemon, or the files of a daemon that is gone.
InitFilesSettled ==
    \/ UsedFiles("running", {"bind", "pid"})
    \/ UsedFiles("dead", {"bind", "pid"})

\* What a read of one line from the terminal can return: a line the user
\* typed, or nothing at the end of input.
StdinReads == {<<"y", "\n">>, <<>>}

\* The same for a user who only presses return.
EmptyReads == {<<"\n">>, <<>>}

\* The clients of this specification are inside connect; nothing of main
\* is followed.
InitMainIdle ==
    /\ argv = <<>> /\ root = "none" /\ req = [kind |-> "none", shell |-> "none"]
    /\ direct = [args |-> <<>>, root |-> "none"]
    /\ cur = "none" /\ atEOF = FALSE /\ input = <<>> /\ calls = 0
    /\ trace = <<>> /\ exit = [done |-> FALSE, code |-> 0]
    /\ env = UserHome /\ paths = [c \in Clients |-> NoPaths]
    /\ stdin = StdinReads

Init ==
    /\ pc = [c \in Clients |-> "connect"]
    /\ attempt = [c \in Clients |-> 0]
    /\ pidStr = [c \in Clients |-> <<>>]
    /\ result = [c \in Clients |-> Err("none")]
    /\ h = [c \in Clients |-> H0]
    /\ seen = {}
    /\ InitFiles
    /\ InitMainIdle

ClientStep(c) ==
    \/ ConnectImmediate(c)
    \/ ReadPid(c)
    \/ Probe(c)
    \/ RemoveSock(c)
    \/ RemovePid(c)
    \/ SpawnFindScript(c)
    \/ SpawnCreateDir(c)
    \/ SpawnWriteProject(c)
    \/ SpawnCreateLog(c)
    \/ SpawnLaunch(c)
    \/ RetrySleep(c)
    \/ RetryAttempt(c)

DaemonStep(d) ==
    \/ DaemonBind(d)
    \/ DaemonWritePid(d)

Next ==
    \/ \E c \in Clients : ClientStep(c)
    \/ \E d \in Daemons : DaemonStep(d)

Spec == Init /\ [][Next]_vars


(***************************************************************************)
(* JSON values and the lines the daemon may send (main.rs:123-131).        *)
(***************************************************************************)
JNull == [t |-> "null"]
JStr(x) == [t |-> "str", v |-> x]
\* A JSON number: an integer hi * 2^32 + lo with lo in the i32 range, or
\* a number that is no integer.
JInt(hi, lo) == [t |-> "num", int |-> TRUE, hi |-> hi, lo |-> lo]
JFloat == [t |-> "num", int |-> FALSE, hi |-> 0, lo |-> 0]
JArr(xs) == [t |-> "arr", v |-> xs]
JObj(fields) == [t |-> "obj", v |-> fields]

\* serde_json's Value index: Null for a missing key and for a non-object.
Get(j, key) == IF j.t = "obj" /\ key \in DOMAIN j.v THEN j.v[key] ELSE JNull

\* Value::as_str and Value::as_i64.
IsStr(j) == j.t = "str"
IsI64(j) == j.t = "num" /\ j.int

\* `as i32` of an i64: the low 32 bits, read as a signed number.
AsI32(j) == j.lo

\* The lines of the stream by name: what serde_json::from_str makes of the
\* trimmed line.
Parsed(json) == [ok |-> TRUE, json |-> json]
Unparsable == [ok |-> FALSE, json |-> JNull]

LineTable ==
    [write_A |-> Parsed(JObj([kind |-> JStr("write"), text |-> JStr("A")])),
     write_notext |-> Parsed(JObj([kind |-> JStr("write")])),
     prompt_B |-> Parsed(JObj([kind |-> JStr("prompt"), message |-> JStr("B? ")])),
     prompt_nomsg |-> Parsed(JObj([kind |-> JStr("prompt")])),
     ping |-> Parsed(JObj([kind |-> JStr("ping"), text |-> JStr("Z")])),
     nokind |-> Parsed(JObj([text |-> JStr("Z"), stdout |-> JStr("Z"),
                             message |-> JStr("Z")])),
     malformed |-> Unparsable,
     blank |-> Unparsable,
     resp_D0 |-> Parsed(JObj([kind |-> JStr("response"), stdout |-> JStr("D"),
                              exitCode |-> JInt(0, 0)])),
     resp_E3 |-> Parsed(JObj([kind |-> JStr("response"), stderr |-> JStr("E"),
                              exitCode |-> JInt(0, 3)])),
     resp_bare |-> Parsed(JObj([kind |-> JStr("response")])),
     resp_float |-> Parsed(JObj([kind |-> JStr("response"), exitCode |-> JFloat])),
     resp_258 |-> Parsed(JObj([kind |-> JStr("response"), exitCode |-> JInt(0, 258)])),
     resp_wide |-> Parsed(JObj([kind |-> JStr("response"), exitCode |-> JInt(1, 2)])),
     resp_out |-> Parsed(JObj([kind |-> JStr("response"), stdout |-> JStr("D"),
                               stderr |-> JStr("E"), exitCode |-> JInt(0, 2),
                               completionOutput |-> JStr("foo\nbar\n"),
                               completions |-> JArr(<<JStr("x")>>)])),
     resp_list |-> Parsed(JObj([kind |-> JStr("response"), stdout |-> JStr("D"),
                                exitCode |-> JInt(0, 2),
                                completions |-> JArr(<<JStr("x"), JInt(0, 5), JStr("y")>>)]))]

Lines == DOMAIN LineTable

KindOf(l) ==
    LET k == Get(LineTable[l].json, "kind")
    IN IF LineTable[l].ok /\ IsStr(k) THEN k.v ELSE "none"

\* str::trim_end_matches('\n').
RECURSIVE TrimEndNewlines(_)
TrimEndNewlines(t) ==
    IF t # <<>> /\ t[Len(t)] = "\n"
    THEN TrimEndNewlines(SubSeq(t, 1, Len(t) - 1))
    ELSE t

(***************************************************************************)
(* main (main.rs:45-192).                                                  *)
(***************************************************************************)
\* The client whose invocation is followed from main on.
Main == "c1"

\* The most lines the daemon sends in one session.
MaxLines == 3

Ev(e, v) == [ev |-> e, val |-> v]

\* Text printed on standard output or standard error, a line read from the
\* terminal, and an InputMessage written to the stream.
Out(x) == Ev("stdout", [s |-> x])
ErrOut(x) == Ev("stderr", [s |-> x])
In(t) == Ev("stdin", [chars |-> t])
SendInput(t) == Ev("send_input", [chars |-> t])

Events(e) == SelectSeq(trace, LAMBDA x : x.ev = e)

\* std::process::exit(code): the parent sees the low 8 bits of the status.
Exit(c, code) ==
    /\ pc' = [pc EXCEPT ![c] = "exited"]
    /\ exit' = [done |-> TRUE, code |-> code % 256]

\* Fail with the exit status lost: the message, then exit(0).
FailWithStatusZero(c, what) ==
    /\ trace' = Append(trace, ErrOut(what))
    /\ Exit(c, 0)

\* A local failure: the message on standard error, then exit(1).
Fail(c, what) ==
    /\ trace' = Append(trace, ErrOut(what))
    /\ Exit(c, 1)

\* MainStart without the test for a missing project: connect is called with
\* whatever root there is.
MainStartNoProjectCheck(c) ==
    /\ pc[c] = "main"
    /\ IF argv # <<>> /\ Head(argv) = "daemon"
       THEN /\ pc' = [pc EXCEPT ![c] = "run_direct"]
            /\ direct' = [args |-> argv, root |-> root]
            /\ UNCHANGED <<argv, req, calls>>
       ELSE /\ pc' = [pc EXCEPT ![c] = "connect"]
            /\ calls' = calls + 1
            /\ IF argv # <<>> /\ Head(argv) = "__complete"
               THEN /\ req' = [kind |-> "complete",
                               shell |-> IF Tail(argv) # <<>> THEN argv[2] ELSE "none"]
                    /\ argv' = IF Tail(argv) # <<>> THEN Tail(Tail(argv)) ELSE <<>>
               ELSE /\ req' = [kind |-> "run", shell |-> "none"]
                    /\ UNCHANGED argv
            /\ UNCHANGED direct
    /\ UNCHANGED <<attempt, pidStr, result, h, seen, fsVars, dVars,
                   root, envVars, cur, atEOF, input, trace, exit>>

\* MainStart without the test for the daemon subcommand: it is routed to
\* the daemon like any other command.
MainStartNoBypass(c) ==
    /\ pc[c] = "main"
    /\ IF root = "none"
       THEN /\ pc' = [pc EXCEPT ![c] = "run_direct"]
            /\ direct' = [args |-> argv, root |-> "none"]
            /\ UNCHANGED <<argv, req, calls>>
       ELSE /\ pc' = [pc EXCEPT ![c] = "connect"]
            /\ calls' = calls + 1
            /\ IF argv # <<>> /\ Head(argv) = "__complete"
               THEN /\ req' = [kind |-> "complete",
                               shell |-> IF Tail(argv) # <<>> THEN argv[2] ELSE "none"]
                    /\ argv' = IF Tail(argv) # <<>> THEN Tail(Tail(argv)) ELSE <<>>
               ELSE /\ req' = [kind |-> "run", shell |-> "none"]
                    /\ UNCHANGED argv
            /\ UNCHANGED direct
    /\ UNCHANGED <<attempt, pidStr, result, h, seen, fsVars, dVars,
                   root, envVars, cur, atEOF, input, trace, exit>>

\* main.rs:46-85: the daemon subcommand and a missing project run
\* directly; anything else builds the request and calls connect.
MainStart(c) ==
    /\ pc[c] = "main"
    /\ IF argv # <<>> /\ Head(argv) = "daemon"
       THEN /\ pc' = [pc EXCEPT ![c] = "run_direct"]
            /\ direct' = [args |-> argv, root |-> root]
            /\ UNCHANGED <<argv, req, calls>>
       ELSE IF root = "none"
       THEN /\ pc' = [pc EXCEPT ![c] = "run_direct"]
            /\ direct' = [args |-> argv, root |-> "none"]
            /\ UNCHANGED <<argv, req, calls>>
       ELSE /\ pc' = [pc EXCEPT ![c] = "connect"]
            /\ calls' = calls + 1
            /\ IF argv # <<>> /\ Head(argv) = "__complete"
               THEN /\ req' = [kind |-> "complete",
                               shell |-> IF Tail(argv) # <<>> THEN argv[2] ELSE "none"]
                    /\ argv' = IF Tail(argv) # <<>> THEN Tail(Tail(argv)) ELSE <<>>
               ELSE /\ req' = [kind |-> "run", shell |-> "none"]
                    /\ UNCHANGED argv
            /\ UNCHANGED direct
    /\ UNCHANGED <<attempt, pidStr, result, h, seen, fsVars, dVars,
                   root, envVars, cur, atEOF, input, trace, exit>>

\* main.rs:8-34: run_direct runs the entry point with inherited stdio and
\* exits with its status: 1 when the entry point is not found, the command
\* cannot be run, or the run ended without an exit code.
RunDirect(c) ==
    /\ pc[c] = "run_direct"
    /\ \E outcome \in {"no_script", "no_run", "signalled", "code"} :
        \E code \in {0, 2} :
            /\ outcome # "code" => code = 0
            /\ trace' = Append(trace, Ev("direct", [args |-> direct.args,
                                                     root |-> direct.root,
                                                     outcome |-> outcome,
                                                     code |-> code]))
            /\ Exit(c, IF outcome = "code" THEN code ELSE 1)
    /\ UNCHANGED <<attempt, pidStr, result, h, seen, fsVars, dVars,
                   argv, root, envVars, req, direct, cur, atEOF, input, calls>>

\* main.rs:88-95: connect's result; a failure falls back to run_direct.
\* connect's frame is gone once it has returned.
MainMatchConnect(c) ==
    /\ pc[c] = "returned"
    /\ IF result[c].kind = "ok"
       THEN /\ pc' = [pc EXCEPT ![c] = "write_req"]
            /\ UNCHANGED <<trace, direct>>
       ELSE /\ pc' = [pc EXCEPT ![c] = "run_direct"]
            /\ trace' = Append(trace, ErrOut("Daemon not responding"))
            /\ direct' = [args |-> argv, root |-> root]
    /\ h' = [h EXCEPT ![c] = H0]
    /\ attempt' = [attempt EXCEPT ![c] = 0]
    /\ result' = [result EXCEPT ![c] = Err(result[c].kind)]
    /\ seen' = seen \ {c}
    /\ UNCHANGED <<pidStr, fsVars, dVars, argv, root, envVars, req, cur, atEOF, input, calls, exit>>

\* main.rs:97-102: the request line is written to the stream.
WriteRequest(c) ==
    /\ pc[c] = "write_req"
    /\ \E ok \in BOOLEAN :
        IF ok
        THEN /\ trace' = Append(trace, Ev("send_request", [kind |-> req.kind,
                                                            argv |-> argv,
                                                            shell |-> req.shell]))
             /\ pc' = [pc EXCEPT ![c] = "read"]
             /\ UNCHANGED exit
        ELSE Fail(c, "Error writing to socket")
    /\ UNCHANGED <<attempt, pidStr, result, h, seen, fsVars, dVars,
                   argv, root, envVars, req, direct, cur, atEOF, input, calls>>

\* main.rs:108-121: read_line returns a line, with its newline or cut off
\* by the end of the stream, or end-of-stream, or an error.
ReadLine(c) ==
    /\ pc[c] = "read"
    /\ \/ /\ Fail(c, "Daemon closed connection unexpectedly")
          /\ UNCHANGED <<cur, atEOF>>
       \/ /\ Fail(c, "Error reading from socket")
          /\ UNCHANGED <<cur, atEOF>>
       \/ /\ ~atEOF
          /\ Len(Events("recv")) < MaxLines
          /\ \E l \in Lines, nl \in BOOLEAN :
               /\ cur' = l
               /\ atEOF' = ~nl
               /\ trace' = Append(trace, Ev("recv", [line |-> l, nl |-> nl]))
          /\ pc' = [pc EXCEPT ![c] = "handle"]
          /\ UNCHANGED exit
    /\ UNCHANGED <<attempt, pidStr, result, h, seen, fsVars, dVars,
                   argv, root, envVars, req, direct, input, calls>>

\* What the response arm prints (main.rs:160-183).
RECURSIVE CompletionLines(_)
CompletionLines(xs) ==
    IF xs = <<>> THEN <<>>
    ELSE (IF IsStr(Head(xs)) THEN <<Out(Head(xs).v), Out("\n")>>
          ELSE <<>>) \o CompletionLines(Tail(xs))

\* ResponseOutput with the branch on the request's kind lost: stdout and
\* stderr are printed in completion mode too.
ResponseOutputIgnoresKind(kind, msg) ==
    (IF IsStr(Get(msg, "stdout")) THEN <<Out(Get(msg, "stdout").v)>>
     ELSE <<>>)
    \o (IF IsStr(Get(msg, "stderr")) THEN <<ErrOut(Get(msg, "stderr").v)>>
        ELSE <<>>)

ResponseOutput(kind, msg) ==
    IF kind = "complete"
    THEN IF IsStr(Get(msg, "completionOutput"))
         THEN <<Out(Get(msg, "completionOutput").v)>>
         ELSE IF Get(msg, "completions").t = "arr"
         THEN CompletionLines(Get(msg, "completions").v)
         ELSE <<>>
    ELSE (IF IsStr(Get(msg, "stdout")) THEN <<Out(Get(msg, "stdout").v)>>
          ELSE <<>>)
         \o (IF IsStr(Get(msg, "stderr")) THEN <<ErrOut(Get(msg, "stderr").v)>>
             ELSE <<>>)

\* ResponseStatus with the default of a missing exitCode turned into 0.
ResponseStatusDefaultsToZero(kind, msg) ==
    IF kind = "complete" THEN 0
    ELSE IF IsI64(Get(msg, "exitCode")) THEN AsI32(Get(msg, "exitCode"))
    ELSE 0

\* The status the response arm ends the process with (main.rs:165, 174,
\* 184-185): main returns in completion mode, and exits with exitCode, or 1
\* without one, otherwise.
ResponseStatus(kind, msg) ==
    IF kind = "complete" THEN 0
    ELSE IF IsI64(Get(msg, "exitCode")) THEN AsI32(Get(msg, "exitCode"))
    ELSE 1

\* main.rs:132-137: the prompt arm prints the message and turns to the
\* terminal.
HandlePrompt(c, msg) ==
    /\ trace' = IF IsStr(Get(msg, "message"))
                THEN Append(trace, Out(Get(msg, "message").v))
                ELSE trace
    /\ pc' = [pc EXCEPT ![c] = "stdin"]
    /\ UNCHANGED exit

\* HandleWrite that holds the text back instead of printing it at once.
HandleWriteBuffers(c, msg) ==
    /\ pc' = [pc EXCEPT ![c] = "read"]
    /\ UNCHANGED <<trace, exit>>

\* main.rs:153-159: the write arm prints the text; the loop continues.
HandleWrite(c, msg) ==
    /\ trace' = IF IsStr(Get(msg, "text"))
                THEN Append(trace, Out(Get(msg, "text").v))
                ELSE trace
    /\ pc' = [pc EXCEPT ![c] = "read"]
    /\ UNCHANGED exit

\* HandleResponse that prints and then goes on reading.
HandleResponseContinues(c, msg) ==
    /\ trace' = trace \o ResponseOutput(req.kind, msg)
    /\ pc' = [pc EXCEPT ![c] = "read"]
    /\ UNCHANGED exit

\* main.rs:160-186: the response arm prints and ends the process.
HandleResponse(c, msg) ==
    /\ trace' = trace \o ResponseOutput(req.kind, msg)
    /\ Exit(c, ResponseStatus(req.kind, msg))

\* HandleOther that treats a line of another kind as a write.
HandleOtherEchoes(c, msg) ==
    /\ trace' = IF IsStr(Get(msg, "text"))
                THEN Append(trace, Out(Get(msg, "text").v))
                ELSE trace
    /\ pc' = [pc EXCEPT ![c] = "read"]
    /\ UNCHANGED exit

\* main.rs:187-189: any other kind is skipped.
HandleOther(c, msg) ==
    /\ pc' = [pc EXCEPT ![c] = "read"]
    /\ UNCHANGED <<trace, exit>>

\* main.rs:123-131: the line is parsed and dispatched on its kind.
Handle(c) ==
    /\ pc[c] = "handle"
    /\ LET parsed == LineTable[cur]
           msg == parsed.json
           kind == Get(msg, "kind")
       IN IF ~parsed.ok
          THEN Fail(c, "Error parsing message")
          ELSE IF IsStr(kind) /\ kind.v = "prompt" THEN HandlePrompt(c, msg)
          ELSE IF IsStr(kind) /\ kind.v = "write" THEN HandleWrite(c, msg)
          ELSE IF IsStr(kind) /\ kind.v = "response" THEN HandleResponse(c, msg)
          ELSE HandleOther(c, msg)
    /\ UNCHANGED <<attempt, pidStr, result, h, seen, fsVars, dVars,
                   argv, root, envVars, req, direct, cur, atEOF, input, calls>>

\* PromptRead that ends the process quietly when the terminal is at its
\* end.
PromptReadQuitsAtEnd(c) ==
    /\ pc[c] = "stdin"
    /\ \/ /\ Fail(c, "Error reading input")
          /\ UNCHANGED input
       \/ \E text \in stdin :
            /\ input' = text
            /\ trace' = Append(trace, In(text))
            /\ IF text = <<>>
               THEN Exit(c, 0)
               ELSE /\ pc' = [pc EXCEPT ![c] = "send_input"]
                    /\ UNCHANGED exit
    /\ UNCHANGED <<attempt, pidStr, result, h, seen, fsVars, dVars,
                   argv, root, envVars, req, direct, cur, atEOF, calls>>

\* PromptRead that takes the end of input for a failed read.
PromptReadFailsAtEnd(c) ==
    /\ pc[c] = "stdin"
    /\ \/ /\ Fail(c, "Error reading input")
          /\ UNCHANGED input
       \/ \E text \in stdin :
            /\ input' = text
            /\ IF text = <<>>
               THEN /\ trace' = trace \o <<In(text), ErrOut("Error reading input")>>
                    /\ Exit(c, 1)
               ELSE /\ trace' = Append(trace, In(text))
                    /\ pc' = [pc EXCEPT ![c] = "send_input"]
                    /\ UNCHANGED exit
    /\ UNCHANGED <<attempt, pidStr, result, h, seen, fsVars, dVars,
                   argv, root, envVars, req, direct, cur, atEOF, calls>>

\* main.rs:138-142: the prompt arm reads one line from the terminal.
PromptRead(c) ==
    /\ pc[c] = "stdin"
    /\ \/ /\ Fail(c, "Error reading input")
          /\ UNCHANGED input
       \/ \E text \in stdin :
            /\ input' = text
            /\ trace' = Append(trace, In(text))
            /\ pc' = [pc EXCEPT ![c] = "send_input"]
            /\ UNCHANGED exit
    /\ UNCHANGED <<attempt, pidStr, result, h, seen, fsVars, dVars,
                   argv, root, envVars, req, direct, cur, atEOF, calls>>

\* PromptSend that writes the InputMessage twice.
PromptSendTwice(c) ==
    /\ pc[c] = "send_input"
    /\ trace' = trace \o <<SendInput(TrimEndNewlines(input)),
                           SendInput(TrimEndNewlines(input))>>
    /\ pc' = [pc EXCEPT ![c] = "read"]
    /\ input' = <<>>
    /\ UNCHANGED <<attempt, pidStr, result, h, seen, fsVars, dVars,
                   argv, root, envVars, req, direct, cur, atEOF, calls, exit>>

\* main.rs:143-151: the InputMessage is written to the stream.
PromptSend(c) ==
    /\ pc[c] = "send_input"
    /\ \E ok \in BOOLEAN :
        IF ok
        THEN /\ trace' = Append(trace, SendInput(TrimEndNewlines(input)))
             /\ pc' = [pc EXCEPT ![c] = "read"]
             /\ UNCHANGED exit
        ELSE Fail(c, "Error writing input to socket")
    /\ input' = <<>>
    /\ UNCHANGED <<attempt, pidStr, result, h, seen, fsVars, dVars,
                   argv, root, envVars, req, direct, cur, atEOF, calls>>

\* The command lines and the project lookups an invocation can start from.
ArgLists == {<<>>, <<"sync">>, <<"daemon", "status">>,
             <<"__complete">>, <<"__complete", "zsh", "sy">>}

InitSession ==
    /\ pc = [c \in Clients |-> IF c = Main THEN "main" ELSE "idle"]
    /\ attempt = [c \in Clients |-> 0]
    /\ pidStr = [c \in Clients |-> <<>>]
    /\ result = [c \in Clients |-> Err("none")]
    /\ h = [c \in Clients |-> H0]
    /\ seen = {}
    /\ InitFilesSettled
    /\ argv \in ArgLists
    /\ root \in {"none", "/p"}
    /\ req = [kind |-> "none", shell |-> "none"]
    /\ direct = [args |-> <<>>, root |-> "none"]
    /\ cur = "none" /\ atEOF = FALSE /\ input = <<>> /\ calls = 0
    /\ trace = <<>> /\ exit = [done |-> FALSE, code |-> 0]
    /\ env = UserHome /\ paths = [c \in Clients |-> NoPaths]
    /\ stdin = StdinReads

MainStep(c) ==
    \/ MainStart(c)
    \/ RunDirect(c)
    \/ MainMatchConnect(c)
    \/ WriteRequest(c)
    \/ ReadLine(c)
    \/ Handle(c)
    \/ PromptRead(c)
    \/ PromptSend(c)

NextSession ==
    \/ \E c \in Clients : ClientStep(c)
    \/ \E d \in Daemons : DaemonStep(d)
    \/ \E c \in Clients : MainStep(c)

SpecSession == InitSession /\ [][NextSession]_vars

(***************************************************************************)
(* Properties of connect.                                                  *)
(***************************************************************************)
\* Client c takes a step of connect.
Moved(c) == h'[c].steps # h[c].steps

SpawnErrors == {"err_script", "err_dir", "err_project", "err_log", "err_launch"}

\* The longest path through connect: the immediate attempt, the two steps
\* of is_daemon_alive, the two of clean_stale_files, the five of spawn, and
\* a sleep and an attempt per iteration of the loop.
MaxConnectSteps == 10 + 2 * MAX_CONNECT_ATTEMPTS

FastPathState ==
    \A c \in Clients :
        h[c].firstBound =>
            /\ pc[c] = "returned"
            /\ result[c].kind = "ok"
            /\ h[c].alive = 0 /\ h[c].clean = 0 /\ h[c].spawn = 0
            /\ h[c].sleep = 0 /\ h[c].retry = 0
            /\ h[c].steps = 1

FastPathStep ==
    \A c \in Clients :
        (pc[c] = "connect" /\ Moved(c) /\ ConnectOK) =>
            /\ pc'[c] = "returned"
            /\ result'[c] = Ok(sock)
            /\ UNCHANGED <<fsVars, dVars>>

\* C1: a connect call whose first attempt finds a listener bound at the
\* socket path returns the stream to that listener in that one step: it
\* makes no liveness check, no cleanup, no spawn and no sleep, and the step
\* leaves the socket, pid, log and project.json files as they were.
ConnectFastPath == []FastPathState /\ [][FastPathStep]_vars

\* C1 witness: a client has returned on the fast path while the other one
\* had to take the slow path.
ConnectFastPathWitness ==
    \E c, o \in Clients :
        /\ h[c].firstBound /\ pc[c] = "returned"
        /\ h[o].immediate = 1 /\ ~h[o].firstBound

\* C2 as stated: in a call whose immediate attempt fails and whose liveness
\* check says no, cleanStale then spawn run exactly once each, the call
\* succeeds if a listener appeared at the socket path before the 20th retry
\* attempt, and fails with the 20-attempts error otherwise.
SpawnThenRetryAsStated ==
    \A c \in Clients :
        (pc[c] = "returned" /\ h[c].aliveRes = "false") =>
            /\ h[c].clean = 1 /\ h[c].cleanAtSpawn = 1 /\ h[c].spawn = 1
            /\ c \in seen => result[c].kind = "ok"
            /\ c \notin seen => result[c].kind = "exhausted"

SpawnThenRetryState ==
    \A c \in Clients :
        h[c].aliveRes = "false" =>
            /\ h[c].clean <= 1 /\ h[c].spawn <= 1
            /\ h[c].spawn = 1 => h[c].clean = 1 /\ h[c].cleanAtSpawn = 1
            /\ h[c].sleep > 0 => h[c].spawn = 1 /\ ~h[c].spawnErr
            /\ pc[c] = "returned" =>
                /\ h[c].clean = 1 /\ h[c].spawn = 1
                /\ \/ h[c].spawnErr /\ result[c].kind \in SpawnErrors /\ h[c].retry = 0
                   \/ /\ ~h[c].spawnErr /\ result[c].kind = "ok"
                      /\ h[c].retry \in 1..MAX_CONNECT_ATTEMPTS
                   \/ /\ ~h[c].spawnErr /\ result[c].kind = "exhausted"
                      /\ h[c].retry = MAX_CONNECT_ATTEMPTS

SpawnThenRetryStep ==
    \A c \in Clients :
        (pc[c] = "attempt" /\ Moved(c)) =>
            /\ ConnectOK => pc'[c] = "returned" /\ result'[c] = Ok(sock)
            /\ ~ConnectOK => result'[c].kind # "ok"

\* C2 (amended): in a call whose immediate attempt fails and whose liveness
\* check says no, cleanStale runs exactly once and before spawn, and spawn
\* runs exactly once. If spawn fails the call returns the spawn error with
\* no retry. If spawn succeeds the retry loop starts, and the call succeeds
\* at the first of its up to 20 attempts made while a listener is bound at
\* the socket path; when none of the 20 attempts finds one it fails with the
\* error reporting 20 attempts.
SpawnThenRetry == []SpawnThenRetryState /\ [][SpawnThenRetryStep]_vars

\* C2 witness: a client that cleaned and spawned connects in the retry loop
\* to the daemon it launched.
SpawnThenRetryWitness ==
    \E c \in Clients :
        /\ pc[c] = "returned" /\ h[c].aliveRes = "false"
        /\ result[c] = Ok(c) /\ h[c].retry > 1

\* C3: a failure of spawn ends connect at once with that error: spawn ran
\* once, and no sleep and no retry attempt was made.
SpawnFailurePropagates ==
    \A c \in Clients :
        h[c].spawnErr =>
            /\ pc[c] = "returned"
            /\ result[c].kind \in SpawnErrors
            /\ h[c].spawn = 1
            /\ h[c].sleep = 0 /\ h[c].retry = 0

\* C3 witness: spawn failed at its last step, the process launch.
SpawnFailureWitness ==
    \E c \in Clients :
        h[c].spawnErr /\ pc[c] = "returned" /\ result[c].kind = "err_launch"

BoundedConnectState ==
    \A c \in Clients :
        /\ h[c].immediate <= 1
        /\ h[c].retry <= MAX_CONNECT_ATTEMPTS
        /\ h[c].sleep = IF pc[c] = "attempt" THEN h[c].retry + 1 ELSE h[c].retry
        /\ h[c].steps <= MaxConnectSteps
        /\ pc[c] # "returned" => ENABLED ClientStep(c)
        /\ pc[c] = "returned" =>
            /\ ~ENABLED ClientStep(c)
            /\ result[c].kind \in {"ok", "exhausted"} \cup SpawnErrors
            /\ result[c].kind = "exhausted" =>
                 h[c].retry = MAX_CONNECT_ATTEMPTS /\ h[c].sleep = MAX_CONNECT_ATTEMPTS

BoundedConnectStep ==
    \A c \in Clients :
        /\ (pc[c] \in {"connect", "attempt"} /\ Moved(c) /\ ConnectOK) =>
              pc'[c] = "returned" /\ result'[c].kind = "ok"
        /\ (pc[c] = "attempt" /\ Moved(c) /\ ~ConnectOK /\ pc'[c] = "returned") =>
              h[c].retry = MAX_CONNECT_ATTEMPTS - 1

\* C4: connect ends after a bounded number of steps, none of which can
\* block: one immediate and at most 20 retry attempts, one sleep before
\* each retry attempt, a return at the first successful attempt, the
\* exhaustion error only after 20 failed retry attempts, and never the
\* generic error that follows the loop.
BoundedConnect == []BoundedConnectState /\ [][BoundedConnectStep]_vars

\* C4 witness: a call has used up all 20 retry attempts.
BoundedConnectWitness ==
    \E c \in Clients :
        /\ pc[c] = "returned" /\ result[c].kind = "exhausted"
        /\ h[c].retry = MAX_CONNECT_ATTEMPTS

\* C5: no step removes the socket file or the pid file of a daemon that is
\* alive and listening.
HealthyDaemonUndisturbed ==
    [][\A d \in Daemons :
          Listening(d) =>
              /\ sock = d => sock' = d
              /\ pidf = File(Decimal(PidOf(d))) => pidf' = pidf]_vars


(***************************************************************************)
(* Properties of the session.                                              *)
(***************************************************************************)
ClosedMessage == "Daemon closed connection unexpectedly"

FailureMessages ==
    {ClosedMessage, "Error reading from socket", "Error parsing message",
     "Error reading input", "Error writing input to socket",
     "Error writing to socket"}

IsFailure(e) == e.ev = "stderr" /\ e.val.s \in FailureMessages

IsPrefix(a, b) == Len(a) <= Len(b) /\ a = SubSeq(b, 1, Len(a))

\* The places of the trace where a line was read, and the line read there.
RecvIdx == {i \in 1..Len(trace) : trace[i].ev = "recv"}
LineAt(i) == trace[i].val.line
IsLast(i) == \A j \in RecvIdx : j <= i

\* What main did between reading line i and reading the next one.
SegEnd(i) ==
    IF IsLast(i) THEN Len(trace)
    ELSE (CHOOSE j \in RecvIdx : j > i /\ \A k \in RecvIdx : k > i => j <= k) - 1

Seg(i) == SubSeq(trace, i + 1, SegEnd(i))

\* The same without the report of a local failure that ended it.
Effects(i) ==
    LET sg == Seg(i)
    IN IF sg # <<>> /\ IsFailure(sg[Len(sg)]) THEN SubSeq(sg, 1, Len(sg) - 1) ELSE sg

LastEvent == trace[Len(trace)]

\* What the protocol asks of the client for line l, t being what the
\* terminal returns.
PromptPrint(l) ==
    IF IsStr(Get(LineTable[l].json, "message"))
    THEN <<Out(Get(LineTable[l].json, "message").v)>>
    ELSE <<>>

Block(l, t) ==
    IF KindOf(l) = "prompt"
    THEN PromptPrint(l) \o <<In(t), SendInput(TrimEndNewlines(t))>>
    ELSE IF KindOf(l) = "write"
    THEN IF IsStr(Get(LineTable[l].json, "text"))
         THEN <<Out(Get(LineTable[l].json, "text").v)>>
         ELSE <<>>
    ELSE IF KindOf(l) = "response"
    THEN ResponseOutput(req.kind, LineTable[l].json)
    ELSE <<>>

\* Line i has been handled to its end: main has gone on to the next read.
Handled(i) ==
    \/ ~IsLast(i)
    \/ pc[Main] = "read"
    \/ /\ exit.done
       /\ LastEvent \in {ErrOut(ClosedMessage), ErrOut("Error reading from socket")}

\* C6: what the client prints, reads from the terminal and writes back is,
\* line by line in the order the lines arrived, exactly what each line asks
\* for: a line is handled to its end before the next one is read, a prompt's
\* message is printed before the terminal is read, and its InputMessage is
\* written before the next line is read.
ProtocolOrdering ==
    \A i \in RecvIdx :
        /\ \E t \in StdinReads :
             IF Handled(i)
             THEN Effects(i) = Block(LineAt(i), t)
             ELSE IsPrefix(Effects(i), Block(LineAt(i), t))
        /\ ~IsLast(i) => Seg(i) = Effects(i)
        /\ (IsLast(i) /\ pc[Main] = "handle") => Seg(i) = <<>>
        /\ (IsLast(i) /\ pc[Main] = "stdin") => Seg(i) = PromptPrint(LineAt(i))
        /\ (IsLast(i) /\ pc[Main] = "send_input") =>
              Seg(i) = PromptPrint(LineAt(i)) \o <<In(input)>>

\* C6 witness: write A, prompt B? and response D have been handled, and the
\* terminal saw A, B? , the line read, and D, in that order.
ProtocolOrderingWitness ==
    /\ exit.done /\ exit.code = 0
    /\ SelectSeq(trace, LAMBDA x : x.ev \in {"stdout", "stdin", "send_input"})
         = <<Out("A"), Out("B? "), In(<<"y", "\n">>),
             SendInput(<<"y">>), Out("D")>>

ResponseTerminalState ==
    /\ \A i \in RecvIdx :
         KindOf(LineAt(i)) = "response" =>
            /\ IsLast(i)
            /\ \/ pc[Main] = "handle" /\ Seg(i) = <<>>
               \/ /\ exit.done
                  /\ Seg(i) = ResponseOutput(req.kind, LineTable[LineAt(i)].json)
    /\ exit.done => pc[Main] = "exited" /\ ~ENABLED MainStep(Main)

ResponseTerminalStep ==
    exit.done => UNCHANGED <<mainVars, envVars, connVars>>

\* C7: a response line is the last line read: handling it prints its output
\* and ends the process, after which nothing is read, printed or written.
ResponseIsTerminal == []ResponseTerminalState /\ [][ResponseTerminalStep]_vars

\* C7 witness: the process has ended on a response that followed two other
\* lines.
ResponseIsTerminalWitness ==
    /\ exit.done
    /\ Cardinality(RecvIdx) = 3
    /\ \E i \in RecvIdx : IsLast(i) /\ KindOf(LineAt(i)) = "response"

\* C8: the client writes one Request, before it reads any line, and after
\* that one InputMessage for each prompt it has handled and nothing else.
MessageDiscipline ==
    /\ Len(Events("send_request")) <= 1
    /\ pc[Main] \in {"read", "handle", "stdin", "send_input"} =>
          Len(Events("send_request")) = 1
    /\ \A i \in 1..Len(trace) :
          trace[i].ev \in {"recv", "send_input", "stdin", "stdout"} =>
             \E j \in 1..(i - 1) : trace[j].ev = "send_request"
    /\ \A i \in RecvIdx :
          Len(SelectSeq(Seg(i), LAMBDA x : x.ev = "send_input"))
             = IF KindOf(LineAt(i)) = "prompt" /\ Handled(i) THEN 1 ELSE 0
    /\ Len(Events("send_input"))
          = Cardinality({i \in RecvIdx : KindOf(LineAt(i)) = "prompt" /\ Handled(i)})

\* C8 witness: two prompts and a line of another kind have been handled,
\* and two InputMessages sent.
MessageDisciplineWitness ==
    /\ Len(Events("send_input")) = 2
    /\ \E i \in RecvIdx : KindOf(LineAt(i)) \notin {"prompt", "response"}
    /\ pc[Main] = "read"

\* The session has begun and the process has ended.
SessionOver == exit.done /\ Len(Events("send_request")) = 1

\* C9 as stated: when the stream ends before a newline-terminated response
\* line was read, also in the middle of a line, the client reports an
\* unexpected close, exits with 1 and prints nothing of a response.
UnexpectedCloseAsStated ==
    (/\ SessionOver
     /\ atEOF \/ LastEvent = ErrOut(ClosedMessage)
     /\ ~\E i \in RecvIdx : KindOf(LineAt(i)) = "response" /\ trace[i].val.nl)
    => /\ LastEvent = ErrOut(ClosedMessage)
       /\ exit.code = 1
       /\ \A i \in RecvIdx : KindOf(LineAt(i)) # "response"

UnexpectedCloseState ==
    /\ (exit.done /\ trace # <<>> /\ LastEvent = ErrOut(ClosedMessage)) =>
          /\ exit.code = 1
          /\ \A i \in RecvIdx : KindOf(LineAt(i)) # "response"
    /\ \A i \in RecvIdx :
          ~trace[i].val.nl =>
             /\ IsLast(i)
             /\ (exit.done /\ ~LineTable[LineAt(i)].ok) =>
                   Seg(i) = <<ErrOut("Error parsing message")>> /\ exit.code = 1
             /\ (exit.done /\ KindOf(LineAt(i)) = "response") =>
                   Seg(i) = ResponseOutput(req.kind, LineTable[LineAt(i)].json)

UnexpectedCloseStep ==
    (pc[Main] = "read" /\ atEOF /\ pc'[Main] # "read") =>
        /\ exit'.done /\ exit'.code = 1
        /\ trace' \in {Append(trace, ErrOut(ClosedMessage)),
                       Append(trace, ErrOut("Error reading from socket"))}

\* C9 (amended): when a read of the stream returns end-of-stream with no
\* bytes before a response was handled, the client reports an unexpected
\* close, exits with 1 and prints nothing of a response. A last line that
\* the end of the stream cuts off is parsed and dispatched like a terminated
\* one: it ends in the parse error (exit 1) when it is not well-formed, and
\* is handled as the response when it is a complete response.
UnexpectedClose == []UnexpectedCloseState /\ [][UnexpectedCloseStep]_vars

\* C9 witness: the stream closed after a prompt was answered and a write
\* printed.
UnexpectedCloseWitness ==
    /\ exit.done /\ trace # <<>> /\ LastEvent = ErrOut(ClosedMessage)
    /\ Len(Events("send_input")) = 1
    /\ \E i \in RecvIdx : KindOf(LineAt(i)) = "write"

\* The response the process ended on, if any.
ResponseHandled ==
    exit.done /\ \E i \in RecvIdx : IsLast(i) /\ KindOf(LineAt(i)) = "response"

LastLine == LineAt(CHOOSE i \in RecvIdx : IsLast(i))

ExitCodeOf(l) == Get(LineTable[l].json, "exitCode")

EntryLines(xs) ==
    LET strs == SelectSeq(xs, IsStr)
    IN [k \in 1..(2 * Len(strs)) |->
          IF k % 2 = 1 THEN Out(strs[(k + 1) \div 2].v) ELSE Out("\n")]

\* What a completion request prints for response line l.
CompletionPrinted(l) ==
    LET m == LineTable[l].json
    IN IF IsStr(Get(m, "completionOutput"))
       THEN <<Out(Get(m, "completionOutput").v)>>
       ELSE IF Get(m, "completions").t = "arr"
       THEN EntryLines(Get(m, "completions").v)
       ELSE <<>>

\* What a write or prompt line makes the client do whatever the request's
\* kind, t being what the terminal returns.
StreamedBlock(l, t) ==
    IF KindOf(l) = "prompt"
    THEN PromptPrint(l) \o <<In(t), SendInput(TrimEndNewlines(t))>>
    ELSE IF IsStr(Get(LineTable[l].json, "text"))
    THEN <<Out(Get(LineTable[l].json, "text").v)>>
    ELSE <<>>

\* C11: in a completion request the response prints completionOutput
\* verbatim and nothing else when it is there, otherwise each entry of
\* completions on its own line in order, and never the response's stdout
\* or stderr; write and prompt lines before it are handled as in a run
\* request.
CompletionMode ==
    req.kind = "complete" =>
        \A i \in RecvIdx :
            /\ (exit.done /\ KindOf(LineAt(i)) = "response") =>
                  Seg(i) = CompletionPrinted(LineAt(i))
            /\ (KindOf(LineAt(i)) \in {"write", "prompt"} /\ Handled(i)) =>
                  \E t \in StdinReads : Effects(i) = StreamedBlock(LineAt(i), t)

\* C11 witness: a completion request has printed A, asked B? and then
\* printed the two string entries of a completions array, x and y, and no
\* stdout of the response.
CompletionModeWitness ==
    /\ req.kind = "complete" /\ exit.done
    /\ Events("stdout") = <<Out("A"), Out("B? "), Out("x"), Out("\n"),
                            Out("y"), Out("\n")>>
    /\ Events("stderr") = <<>>

(***************************************************************************)
(* is_daemon_alive on its own: every content of the pid file, probed by    *)
(* both clients.                                                           *)
(***************************************************************************)
\* What the pid file may hold when is_daemon_alive reads it.
PidTexts ==
    {<<>>, <<"\n">>, <<"7">>, <<"7", "\n">>, <<" ", "7", " ">>, <<"+", "7">>,
     <<"8">>, <<"9", "9">>, <<"a">>, <<"7", "a">>, <<"-">>, <<"0">>,
     <<"-", "1">>, <<"2", "1", "4", "7", "4", "8", "3", "6", "4", "8">>}

InitAlive ==
    /\ pc = [c \in Clients |-> "read_pid"]
    /\ attempt = [c \in Clients |-> 0]
    /\ pidStr = [c \in Clients |-> <<>>]
    /\ result = [c \in Clients |-> Err("none")]
    /\ h = [c \in Clients |-> [H0 EXCEPT !.immediate = 1, !.steps = 1]]
    /\ seen = {}
    /\ dirExists = TRUE /\ sock = NoFile /\ projf = "root"
    /\ logf = File(<<"old">>)
    /\ pidf \in {Absent} \cup {File(t) : t \in PidTexts}
    /\ \E st \in {"none", "running", "dead"} :
          dstate = [d \in Daemons |-> IF d = "d0" THEN st ELSE "none"]
    /\ dbound = [d \in Daemons |-> FALSE]
    /\ dtried = [d \in Daemons |-> {}]
    /\ InitMainIdle

NextAlive == \E c \in Clients : ReadPid(c) \/ Probe(c)

SpecAlive == InitAlive /\ [][NextAlive]_vars

\* The pid file names a process that exists: it holds, whitespace aside, a
\* positive integer that is the process id of a running process.
PidFileNamesProcess ==
    /\ pidf.exists
    /\ ParseI32(Trim(pidf.text)).ok
    /\ ParseI32(Trim(pidf.text)).val > 0
    /\ \E d \in Daemons :
          PidOf(d) = ParseI32(Trim(pidf.text)).val /\ dstate[d] = "running"

LivenessState ==
    \A c \in Clients :
        /\ h[c].aliveRes = "true" => PidFileNamesProcess
        /\ (h[c].aliveRes # "none" /\ ~PidFileNamesProcess) =>
              h[c].aliveRes = "false"

LivenessStep ==
    \A c \in Clients :
        (pc[c] \in {"read_pid", "probe"} /\ Moved(c)) =>
            /\ UNCHANGED <<fsVars, dVars>>
            /\ pc'[c] \in {"probe", "rm_sock", "loop"}

\* C12: is_daemon_alive answers true only when the pid file holds a
\* positive integer that is the process id of an existing process, and
\* false when the file is absent, empty, no integer, or names no existing
\* process; it returns no error and changes no process and no file.
LivenessSemantics == []LivenessState /\ [][LivenessStep]_vars

(***************************************************************************)
(* Invocations that bypass the daemon.                                     *)
(***************************************************************************)
\* The run_direct call that ended the process, and the status it gives.
DirectEvent(args, r) ==
    /\ Len(trace) = 1
    /\ trace[1].ev = "direct"
    /\ trace[1].val.args = args /\ trace[1].val.root = r
    /\ exit.code = IF trace[1].val.outcome = "code" THEN trace[1].val.code ELSE 1

\* No step of connect has been taken by the followed client.
NoConnect ==
    /\ calls = 0
    /\ h[Main] = H0 /\ result[Main] = Err("none") /\ attempt[Main] = 0
    /\ pc[Main] \in {"main", "run_direct", "exited"}
    /\ req.kind = "none"

\* The invocation is the daemon subcommand.
DaemonSubcommand == argv # <<>> /\ Head(argv) = "daemon"

DaemonBypassState ==
    DaemonSubcommand =>
        /\ NoConnect
        /\ exit.done => DirectEvent(argv, root)
        /\ ~exit.done => trace = <<>> /\ ENABLED MainStep(Main)

DaemonBypassStep ==
    DaemonSubcommand => UNCHANGED <<fsVars, dVars>>

\* C13: with 'daemon' as first argument the client never calls connect: no
\* connection attempt, no liveness check, no cleanup and no spawn, and no
\* change to the socket, pid, log or project.json; it runs the entry point
\* directly, with the project root if one was found, and exits with that
\* run's status, 1 when it could not be run.
DaemonBypass == []DaemonBypassState /\ [][DaemonBypassStep]_vars

\* C13 witness: the daemon subcommand, invoked inside a project whose
\* daemon is serving, has run directly and exited with the run's status 2.
DaemonBypassWitness ==
    /\ DaemonSubcommand /\ root = "/p" /\ exit.done /\ exit.code = 2
    /\ ConnectOK

(***************************************************************************)
(* DaemonPaths::for_project on its own: both clients compute the paths of  *)
(* one project root while the environment and the files change.            *)
(***************************************************************************)
Roots == {"/p", "/q"}

Homes == {UserHome, "/home/v", Unset}

\* daemon.rs:162: connect computes the paths of the project root.
ForProjectCall(c) ==
    /\ pc[c] = "idle"
    /\ paths' = [paths EXCEPT ![c] = ForProject(root, env)]
    /\ pc' = [pc EXCEPT ![c] = "connect"]
    /\ UNCHANGED <<attempt, pidStr, result, h, seen, fsVars, dVars, mainVars, env, stdin>>

\* The environment of the next invocation differs: HOME is set to another
\* directory, or not at all.
SetHome ==
    /\ \E v \in Homes : v # env /\ env' = v
    /\ \E c \in Clients : pc[c] = "idle"
    /\ UNCHANGED <<connVars, fsVars, dVars, mainVars, paths, stdin>>

InitPaths ==
    /\ pc = [c \in Clients |-> "idle"]
    /\ attempt = [c \in Clients |-> 0]
    /\ pidStr = [c \in Clients |-> <<>>]
    /\ result = [c \in Clients |-> Err("none")]
    /\ h = [c \in Clients |-> H0]
    /\ seen = {}
    /\ InitFiles
    /\ argv = <<>> /\ root \in Roots /\ req = [kind |-> "none", shell |-> "none"]
    /\ direct = [args |-> <<>>, root |-> "none"]
    /\ cur = "none" /\ atEOF = FALSE /\ input = <<>> /\ calls = 0
    /\ trace = <<>> /\ exit = [done |-> FALSE, code |-> 0]
    /\ env \in Homes /\ paths = [c \in Clients |-> NoPaths]
    /\ stdin = StdinReads

NextPaths ==
    \/ \E c \in Clients : ForProjectCall(c)
    \/ SetHome
    \/ \E d \in Daemons : DaemonStep(d)

SpecPaths == InitPaths /\ [][NextPaths]_vars

\* The four paths are there and the three files lie in dir.
SharedDirectory(p) ==
    /\ p.state = "ok"
    /\ p.socket = Append(p.dir, "daemon.sock")
    /\ p.pid = Append(p.dir, "daemon.pid")
    /\ p.log = Append(p.dir, "daemon.log")

\* C14: the DaemonPaths of a project root are a function of the root's text
\* alone: two computations for the same root give the same four paths
\* whatever the environment and the files are, and all four share one
\* directory.
AddressingDeterminism ==
    \A c, d \in Clients :
        (paths[c].state # "none" /\ paths[d].state # "none") =>
            /\ paths[c] = paths[d]
            /\ SharedDirectory(paths[c])

(***************************************************************************)
(* clean_stale_files on its own: both clients call it, one after or in     *)
(* between the other, in every state of the socket and pid files.          *)
(***************************************************************************)
InitClean ==
    /\ pc = [c \in Clients |-> "rm_sock"]
    /\ attempt = [c \in Clients |-> 0]
    /\ pidStr = [c \in Clients |-> <<>>]
    /\ result = [c \in Clients |-> Err("none")]
    /\ h = [c \in Clients |->
              [H0 EXCEPT !.immediate = 1, !.alive = 1, !.aliveRes = "false",
                         !.steps = 2]]
    /\ seen = {}
    /\ \/ FreshFiles
       \/ /\ dirExists = TRUE /\ projf = "root"
          /\ logf \in {Absent, File(<<>>), File(<<"old">>)}
          /\ sock \in {NoFile, "d0"}
          /\ pidf \in {Absent, File(<<>>), File(<<"a">>), File(<<"7">>)}
          /\ \E st \in {"running", "dead"} :
                /\ dstate = [d \in Daemons |-> IF d = "d0" THEN st ELSE "none"]
                /\ dbound = [d \in Daemons |->
                                d = "d0" /\ st = "running" /\ sock = "d0"]
          /\ dtried = [d \in Daemons |-> IF d = "d0" THEN {"bind", "pid"} ELSE {}]
    /\ InitMainIdle

NextClean == \E c \in Clients : RemoveSock(c) \/ RemovePid(c)

SpecClean == InitClean /\ [][NextClean]_vars

Cleaning(c) == pc[c] \in {"rm_sock", "rm_pid"}

CleanState ==
    \A c \in Clients :
        /\ result[c] = Err("none")
        /\ pc[c] \in {"rm_sock", "rm_pid", "find_script"}
        /\ Cleaning(c) => ENABLED (RemoveSock(c) \/ RemovePid(c))
        /\ pc[c] = "find_script" => sock = NoFile /\ pidf = Absent

CleanStep ==
    /\ (sock = NoFile /\ pidf = Absent) => UNCHANGED fsVars
    /\ UNCHANGED <<dirExists, logf, projf, dVars>>

\* C15: clean_stale_files never fails its caller, whatever the files are:
\* with the socket or the pid file already absent it completes and connect
\* goes on to spawn; after one call both files are absent, and a further
\* call leaves that state as it is.
IdempotentCleanup == []CleanState /\ [][CleanStep]_vars

\* C15 witness: both clients have completed clean_stale_files, so that one
\* of them removed files that were already gone, and connect went on in
\* both.
IdempotentCleanupWitness ==
    /\ \A c \in Clients : pc[c] = "find_script" /\ h[c].clean = 1
    /\ dstate["d0"] = "dead"

(***************************************************************************)
(* A daemon that is alive but cannot be connected to.                      *)
(***************************************************************************)
AliveState ==
    \A c \in Clients :
        h[c].aliveRes = "true" =>
            /\ h[c].immediate = 1 /\ ~h[c].firstBound
            /\ h[c].clean = 0 /\ h[c].spawn = 0
            /\ pc[c] \in {"loop", "attempt", "returned"}
            /\ pc[c] # "returned" => ENABLED ClientStep(c)
            /\ pc[c] = "returned" =>
                  \/ result[c].kind = "ok"
                  \/ /\ result[c].kind = "exhausted"
                     /\ h[c].retry = MAX_CONNECT_ATTEMPTS

AliveStep ==
    \A c \in Clients :
        (h'[c].aliveRes = "true" /\ Moved(c)) => UNCHANGED <<fsVars, dVars>>

\* C16: in a connect call whose immediate attempt fails and whose liveness
\* check says yes, neither cleanStale nor spawn runs and no step of the
\* client changes the socket, pid, log or project.json; the call goes on
\* to the retry loop and ends with success or with the exhaustion error
\* after 20 failed retries.
AliveUnconnectable == []AliveState /\ [][AliveStep]_vars

\* C16 witness: a client that found the daemon alive has given up after 20
\* retries, the daemon still running without a listener.
AliveUnconnectableWitness ==
    \E c \in Clients :
        /\ h[c].aliveRes = "true" /\ pc[c] = "returned"
        /\ result[c].kind = "exhausted"
        /\ dstate["d0"] = "running" /\ ~dbound["d0"]

(***************************************************************************)
(* Lines of unknown kind.                                                  *)
(***************************************************************************)
\* Line l is well-formed and its kind is none of prompt, write, response.
UnknownKind(l) ==
    LineTable[l].ok /\ KindOf(l) \notin {"prompt", "write", "response"}

ReadFailures == {ErrOut(ClosedMessage), ErrOut("Error reading from socket")}

UnknownIgnoredState ==
    \A i \in RecvIdx :
        UnknownKind(LineAt(i)) =>
            /\ Effects(i) = <<>>
            /\ ~IsLast(i) => Seg(i) = <<>>
            /\ (IsLast(i) /\ exit.done) =>
                  /\ Seg(i) = <<LastEvent>> /\ LastEvent \in ReadFailures
                  /\ exit.code = 1
            /\ (IsLast(i) /\ ~exit.done) =>
                  pc[Main] \in {"handle", "read"} /\ ENABLED MainStep(Main)

UnknownIgnoredStep ==
    (pc[Main] = "handle" /\ cur \in Lines /\ UnknownKind(cur)
       /\ pc'[Main] # "handle") =>
        /\ pc'[Main] = "read"
        /\ UNCHANGED <<trace, exit, input, cur, atEOF, argv, root, req,
                       direct, calls>>

\* C17: a well-formed line whose kind is none of prompt, write and
\* response, or that has no kind, makes the client print nothing, read
\* nothing from the terminal, write nothing to the daemon and not end:
\* handling it changes nothing but the position, which returns to the read
\* of the next line.
UnknownIgnored == []UnknownIgnoredState /\ [][UnknownIgnoredStep]_vars

\* C17 witness: a line of unknown kind and a line without kind, both with
\* text in them, were skipped, and the response after them printed D.
UnknownIgnoredWitness ==
    /\ exit.done /\ exit.code = 0
    /\ \E i, j \in RecvIdx :
          i < j /\ LineAt(i) = "ping" /\ LineAt(j) = "nokind"
    /\ SelectSeq(trace, LAMBDA x : x.ev # "recv" /\ x.ev # "send_request")
          = <<Out("D")>>

(***************************************************************************)
(* The log across restarts.                                                *)
(***************************************************************************)
\* C18: what the log holds before a step of clean_stale_files or spawn it
\* still holds after it, new output coming after the old, and neither the
\* daemon directory nor the log is removed or emptied.
LogPersistence ==
    [][/\ dirExists => dirExists'
       /\ logf.exists => logf'.exists /\ IsPrefix(logf.text, logf'.text)]_vars

(***************************************************************************)
(* The session against a serving daemon, every blocking call of the        *)
(* client returning in the end: the daemon sends at most MaxLines lines    *)
(* and then closes the stream, and the terminal answers every read.        *)
(***************************************************************************)
InitLoop ==
    /\ pc = [c \in Clients |-> IF c = Main THEN "main" ELSE "idle"]
    /\ attempt = [c \in Clients |-> 0]
    /\ pidStr = [c \in Clients |-> <<>>]
    /\ result = [c \in Clients |-> Err("none")]
    /\ h = [c \in Clients |-> H0]
    /\ seen = {}
    /\ UsedFiles("running", {"bind", "pid"})
    /\ argv \in ArgLists
    /\ root \in {"none", "/p"}
    /\ req = [kind |-> "none", shell |-> "none"]
    /\ direct = [args |-> <<>>, root |-> "none"]
    /\ cur = "none" /\ atEOF = FALSE /\ input = <<>> /\ calls = 0
    /\ trace = <<>> /\ exit = [done |-> FALSE, code |-> 0]
    /\ env = UserHome /\ paths = [c \in Clients |-> NoPaths]
    /\ stdin \in {StdinReads, EmptyReads}

NextLoop == ConnectImmediate(Main) \/ MainStep(Main)

SpecLoop == InitLoop /\ [][NextLoop]_vars /\ WF_vars(NextLoop)

RequestSent == Len(Events("send_request")) = 1

\* Why a session that has ended did.
EndedByResponse == \E i \in RecvIdx : IsLast(i) /\ KindOf(LineAt(i)) = "response"

EndedByFailure == trace # <<>> /\ IsFailure(LastEvent)

\* C19: once the request is sent the client process ends in the end, the
\* daemon sending a response or a malformed line or closing the stream and
\* the terminal answering every read; and it ends for no other reason than
\* a response, a parse error, an unexpected close or a local I/O error.
SessionTermination ==
    /\ RequestSent ~> exit.done
    /\ []((RequestSent /\ exit.done) => (EndedByResponse \/ EndedByFailure))
    /\ []((RequestSent /\ ~exit.done) => ENABLED MainStep(Main))

\* C19 witness: a session has ended by a response after a prompt was
\* answered at the end of the terminal's input and a write was printed.
SessionTerminationWitness ==
    /\ RequestSent /\ exit.done /\ EndedByResponse
    /\ Cardinality(RecvIdx) = MaxLines
    /\ \E i \in 1..Len(trace) : trace[i] = In(<<>>)
    /\ \E i \in RecvIdx : KindOf(LineAt(i)) = "write"

(***************************************************************************)
(* Invocations outside any project.                                        *)
(***************************************************************************)
\* find_project_root found no ancestor with both markers.
NoProject == root = "none"

NoProjectState ==
    NoProject =>
        /\ NoConnect
        /\ paths[Main] = NoPaths
        /\ exit.done => DirectEvent(argv, "none")
        /\ ~exit.done => trace = <<>> /\ ENABLED MainStep(Main)

NoProjectStep ==
    NoProject => UNCHANGED <<fsVars, dVars>>

\* C20: when no ancestor of the working directory holds both markers the
\* client never calls connect: no liveness probe, no removal of the socket
\* or pid file, no spawn; it runs the command directly, without a project
\* root, and exits with that run's status.
NoProjectNoDaemon == []NoProjectState /\ [][NoProjectStep]_vars

\* C20 witness: a command other than the daemon subcommand, invoked outside
\* any project while stale files of a dead daemon lie in the directory, has
\* run directly and exited with the run's status 2, the files untouched.
NoProjectNoDaemonWitness ==
    /\ NoProject /\ ~DaemonSubcommand /\ argv # <<>>
    /\ exit.done /\ exit.code = 2
    /\ dstate["d0"] = "dead" /\ sock = "d0" /\ pidf # Absent

(***************************************************************************)
(* Prompts answered at the end of terminal input.                          *)
(***************************************************************************)
\* The places of the trace where the terminal was read, and what it gave.
ReadIdx == {i \in 1..Len(trace) : trace[i].ev = "stdin"}
ReadAt(i) == trace[i].val.chars

\* The InputMessage whose value is the empty string.
EmptyInput == SendInput(<<>>)

\* The loop has gone on to its next read of the stream: a line, or the
\* report that there was none.
LoopReads(e) == e.ev = "recv" \/ e \in ReadFailures

\* What follows the read at place i of the trace: the InputMessage with
\* value v and the next turn of the loop, unless the socket refused the
\* write.
AnsweredWith(i, v) ==
    /\ i = Len(trace) => pc[Main] = "send_input" /\ ~exit.done
    /\ i < Len(trace) =>
          \/ /\ trace[i + 1] = SendInput(v)
             /\ i + 1 = Len(trace) => pc[Main] = "read" /\ ~exit.done
             /\ i + 1 < Len(trace) => LoopReads(trace[i + 2])
          \/ /\ trace[i + 1] = ErrOut("Error writing input to socket")
             /\ i + 1 = Len(trace)

\* The prompt line the read at place i answers, and what main printed for
\* it.
PromptOf(i) == CHOOSE j \in RecvIdx : j < i /\ \A k \in RecvIdx : k < i => k <= j
Printed(i) == SubSeq(trace, PromptOf(i) + 1, i - 1)

\* C21: a prompt handled while standard input is at its end (the read gives
\* zero bytes, no error) is no failure: the client sends an InputMessage
\* whose value is the empty string and goes on with the loop, exactly as
\* for a user who entered an empty line; and a prompt without a message
\* prints nothing, but reads one line and sends one InputMessage all the
\* same.
PromptAtEndOfInput ==
    \A i \in ReadIdx :
        /\ ReadAt(i) \in {<<>>, <<"\n">>} => AnsweredWith(i, <<>>)
        /\ ReadAt(i) = <<>> =>
              ~(Len(trace) > i /\ trace[i + 1] = ErrOut("Error reading input"))
        /\ KindOf(LineAt(PromptOf(i))) = "prompt"
        /\ LineAt(PromptOf(i)) = "prompt_nomsg" =>
              /\ Printed(i) = <<>>
              /\ AnsweredWith(i, TrimEndNewlines(ReadAt(i)))

\* C21 witness: one session has answered a prompt without a message at the
\* end of input and a prompt with a message by an empty line, both with the
\* empty InputMessage, and has gone on to read the daemon's next line.
PromptAtEndOfInputWitness ==
    \E i, j \in ReadIdx :
        /\ ReadAt(i) = <<>> /\ LineAt(PromptOf(i)) = "prompt_nomsg"
        /\ ReadAt(j) = <<"\n">> /\ LineAt(PromptOf(j)) = "prompt_B"
        /\ i + 2 <= Len(trace) /\ trace[i + 1] = EmptyInput
        /\ j + 2 <= Len(trace) /\ trace[j + 1] = EmptyInput
        /\ trace[i + 2].ev = "recv" /\ trace[j + 2].ev = "recv"

====
